---- MODULE Spec2Model ----
(***************************************************************************)
(* State-machine model of the Agenda component (src/src/agenda/index.js):  *)
(* its React state and props, the timers it starts, the lifecycle chain    *)
(* componentWillMount / componentDidUpdate / loadReservations, the         *)
(* expanded/compact toggle and the marking aggregation of generateMarkings.*)
(***************************************************************************)
EXTENDS Integers, Sequences, FiniteSets, TLC

(***************************************************************************)
(* Bounds of the model.                                                    *)
(***************************************************************************)
\* user/application operations per behaviour
MaxOps == 2
\* operations are issued while the clock is at most MaxTime steps of TickMs
MaxTime == 1
\* the clock advances in steps of TickMs milliseconds
TickMs == 500

(***************************************************************************)
(* Program constants.                                                      *)
(***************************************************************************)
HEADER_HEIGHT == 94
\* delay of the timer started by onScrollPadLayout
ReadyDelay == 0
\* delay of the visible-months timer
LoadDelay == 200
\* first delay of enableCalendarScrolling (scroll the calendar)
ScrollDelay == 500
\* second, nested delay of enableCalendarScrolling (notify opened)
OpenedDelay == 500
\* delay of the notification timer of chooseDay (notify closed)
ClosedDelay == 1000

\* An optional value (a prop or a field that may be undefined) is a sequence of
\* at most one element: <<>> is undefined, <<v>> is the value v.
Undefined == <<>>

Some(v) == <<v>>

IsDefined(o) == Len(o) = 1

Val(o) == o[1]

Max(a, b) == IF a >= b THEN a ELSE b

(***************************************************************************)
(* Dates.  An XDate is a calendar day; the date key of a day is the text   *)
(* toString('yyyy-MM-dd') produces; the "data" of a day is the plain       *)
(* object handed to the application callbacks.                             *)
(***************************************************************************)
XD(y, m, d) == [type |-> "xdate", year |-> y, month |-> m, day |-> d]

Days == {XD(2018, 5, 9), XD(2018, 5, 10), XD(2018, 12, 1)}

Digit(n) == <<"0", "1", "2", "3", "4", "5", "6", "7", "8", "9">>[n + 1]

RECURSIVE Pad(_, _)
\* the decimal text of n, zero-padded to w places
Pad(n, w) == IF w = 0 THEN "" ELSE Pad(n \div 10, w - 1) \o Digit(n % 10)

\* xdate.toString('yyyy-MM-dd')
FormatDate(x) == Pad(x.year, 4) \o "-" \o Pad(x.month, 2) \o "-" \o Pad(x.day, 2)

\* xdate.clone()
Clone(x) == XD(x.year, x.month, x.day)

\* xdateToData of ../interface
xdateToData(x) ==
    [type |-> "data", year |-> x.year, month |-> x.month, day |-> x.day,
     dateString |-> FormatDate(x)]

\* parseDate of ../interface: an XDate or a day data object to an XDate
parseDate(d) == XD(d.year, d.month, d.day)

\* the date keys of the items and markedDates objects
DateKeys == {"2018-05-09", "2018-05-10", "2018-12-01"}

(***************************************************************************)
(* generateMarkings.  An object is a function from its keys to values.     *)
(* The code works on a reference `markings` that is either the markedDates *)
(* prop itself or a fresh object, so the objects live in a small heap.     *)
(***************************************************************************)
EmptyObject == [k \in {} |-> TRUE]

Keys(o) == DOMAIN o

\* o[k], undefined when o has no key k
Get(o, k) == IF k \in Keys(o) THEN Some(o[k]) ELSE Undefined

\* o[k] = v
Put(o, k, v) == [x \in Keys(o) \cup {k} |-> IF x = k THEN v ELSE o[x]]

\* {...e, ...{selected: true}} for e = (markings[key] || {})
SelectEntry(e) ==
    Put(IF IsDefined(e) THEN Val(e) ELSE EmptyObject, "selected", TRUE)

\* HasItems without the length test: an empty list counts as items
HasItems_AnyList(items, key) == IsDefined(items[key])

\* this.props.items[key] && this.props.items[key].length; a key may hold undefined
HasItems(items, key) ==
    /\ IsDefined(items[key])
    /\ Len(Val(items[key])) > 0

MarkedEntry == [x \in {"marked"} |-> TRUE]

RECURSIVE MarkKeys(_, _, _)
\* Object.keys(items).forEach(key => {if (...) markings[key] = {marked: true}})
MarkKeys(markings, items, ks) ==
    IF ks = {} THEN markings
    ELSE LET key == CHOOSE k \in ks : TRUE
         IN MarkKeys(IF HasItems(items, key) THEN Put(markings, key, MarkedEntry)
                     ELSE markings,
                     items, ks \ {key})

\* the heap after `let markings = this.props.markedDates; if (!markings) {...}`,
\* with the object `markings` refers to
BuildMarkings(p) ==
    LET heap == [items |-> p.items, markedDates |-> p.markedDates, fresh |-> EmptyObject]
        its == IF IsDefined(p.items) THEN Val(p.items).val ELSE EmptyObject
    IN IF IsDefined(p.markedDates)
       THEN [heap |-> heap, ref |-> "markedDates"]
       ELSE [heap |-> [heap EXCEPT !.fresh = MarkKeys(EmptyObject, its, Keys(its))],
             ref |-> "fresh"]

\* the object a reference of BuildMarkings denotes
Deref(b) == IF b.ref = "fresh" THEN b.heap.fresh ELSE Val(b.heap.markedDates)

\* return {...markings, [key]: {...(markings[key] || {}), ...{selected: true}}}
\* together with the heap it leaves
ReturnMarkings(b, key) ==
    [ret |-> Put(Deref(b), key, SelectEntry(Get(Deref(b), key))),
     heap |-> b.heap]

\* generateMarkings(): the returned markings and the props as the call leaves them
generateMarkings(p, selectedDay) ==
    LET r == ReturnMarkings(BuildMarkings(p), FormatDate(selectedDay))
    IN [ret |-> r.ret, items |-> r.heap.items, markedDates |-> r.heap.markedDates]

(***************************************************************************)
(* The component.                                                          *)
(***************************************************************************)
VARIABLES
    props,          \* this.props: items, markedDates and the three optional callbacks
    state,          \* this.state
    phase,          \* "constructed", "mounted" or "unmounted"
    _isMounted,     \* this._isMounted (undefined counts as FALSE)
    viewHeight,     \* this.viewHeight
    scrollTimeout,  \* this.scrollTimeout: a timer id, 0 when undefined
    timers,         \* the pending setTimeout timers, in registration order
    nextId,         \* the id the next setTimeout returns
    now,            \* the clock, in milliseconds
    pc,             \* "idle", or the step of the running React update
    prevItems,      \* the items prop of the previous render (prevProps.items)
    cbCommit,       \* a setState callback waits for the end of the current commit
    updateQueued,   \* setState was called during the current commit
    cbQueued,       \* ... with a callback, which runs at the end of the next commit
    scrollPad,      \* the last command to the scroll pad: [y, animated]
    calendarScroll, \* the day of the last calendar.scrollToDay command
    markings,       \* what render handed to the calendar as markedDates
    calls,          \* the application callbacks invoked by the last step, in order
    lastOp,         \* the operation of the last step
    ops,            \* number of operations issued so far
    expanded,       \* ids of the expandCalendar calls made
    opened,         \* ids of the expandCalendar calls that delivered onCalendarToggled(true)
    lastToggled,    \* argument of the last onCalendarToggled call
    toggleSkipped,  \* ids of the notifications whose timer found no onCalendarToggled prop
    chainSteps,     \* componentDidUpdate calls of the running update chain
    chainLoads,     \* loadItemsForMonth calls of loadReservations in that chain
    chainChanged,   \* that chain started from a change of the items prop
    loadsForItems   \* loadItemsForMonth calls of loadReservations since items last changed

vars == <<props, state, phase, _isMounted, viewHeight, scrollTimeout, timers, nextId,
          now, pc, prevItems, cbCommit, updateQueued, cbQueued, scrollPad,
          calendarScroll, markings, calls, lastOp, ops, expanded, opened, lastToggled,
          toggleSkipped, chainSteps, chainLoads, chainChanged, loadsForItems>>

\* the history variables of the update chain
chainVars == <<chainSteps, chainLoads, chainChanged, loadsForItems>>

\* the history variables of the notifications
toggleVars == <<expanded, opened, lastToggled, toggleSkipped>>

(***************************************************************************)
(* Inputs.                                                                 *)
(***************************************************************************)
K1 == "2018-05-09"

K2 == "2018-05-10"

\* an items object: its identity and its content (date key -> list, or undefined)
Obj(i, v) == [id |-> i, val |-> v]

\* the items props of the component model: absent, an empty object, an object
\* with a non-empty day, an object whose only day is an empty list
ItemsChoices ==
    {Undefined,
     Some(Obj(1, EmptyObject)),
     Some(Obj(2, [k \in {K1} |-> Some(<<"a">>)])),
     Some(Obj(3, [k \in {K2} |-> Some(<<>>)]))}

\* the items prop at construction: absent, or the object with a non-empty day
InitialItems == {i \in ItemsChoices : ~IsDefined(i) \/ Val(i).id = 2}

\* Dimensions.get('window').height
WindowHeight == 600

\* the heights onLayout reports
Heights == {50, WindowHeight}

\* the days pressed in the calendar
PressDays == {XD(2018, 5, 9), XD(2018, 12, 1)}

SelectedDays == {XD(2018, 5, 9)}

\* the lists of visible months CalendarList reports
MonthLists ==
    {<<xdateToData(XD(2018, 5, 1))>>,
     <<xdateToData(XD(2018, 12, 1)), xdateToData(XD(2018, 5, 1))>>}

(***************************************************************************)
(* Calls of the application callbacks.                                     *)
(***************************************************************************)
Call(fn, day, flag) == [fn |-> fn, day |-> day, flag |-> flag]

LoadCall(data) == Call("loadItemsForMonth", Some(data), FALSE)

DayPressCall(data) == Call("onDayPress", Some(data), FALSE)

ToggledCall(b) == Call("onCalendarToggled", Undefined, b)

\* Invoke without the guard: the callback is called even when the prop is absent
Invoke_Unguarded(p, call) == <<call>>

\* if (this.props.f) { this.props.f(arg) }
Invoke(p, call) == IF p[call.fn] THEN <<call>> ELSE <<>>

Op(name, day, n) == [op |-> name, day |-> day, n |-> n]

(***************************************************************************)
(* Timers.                                                                 *)
(***************************************************************************)
Timer(id, kind, deadline, month, origin) ==
    [id |-> id, kind |-> kind, deadline |-> deadline, month |-> month, origin |-> origin]

\* setTimeout(f, delay)
setTimeout(ts, id, kind, delay, month, origin) ==
    Append(ts, Timer(id, kind, now + delay, month, origin))

\* clearTimeout(id)
clearTimeout(ts, id) == SelectSeq(ts, LAMBDA t : t.id # id)

TimerSet == {timers[i] : i \in 1..Len(timers)}

Due(t) == t.deadline <= now

\* the timer the event loop runs next: the earliest deadline, then the earliest set
IsNextTimer(t) ==
    /\ t \in TimerSet
    /\ Due(t)
    /\ \A u \in TimerSet :
          \/ u.deadline > t.deadline
          \/ (u.deadline = t.deadline /\ u.id >= t.id)

(***************************************************************************)
(* this.initialScrollPadPosition() and this.setScrollPadPosition(y, a)     *)
(***************************************************************************)
initialScrollPadPosition(h) == Max(0, h - HEADER_HEIGHT)

setScrollPadPosition(y, animated) == [y |-> y, animated |-> animated]

(***************************************************************************)
(* React's update cycle.  A commit runs componentDidUpdate, then the       *)
(* setState callbacks of that commit; a setState made meanwhile starts the *)
(* next commit right after.  Nothing else runs until the chain has ended.  *)
(***************************************************************************)
\* the position after a step that leaves: a callback to run in this commit (cb),
\* a queued update (uq) and a callback queued with it (cq)
Schedule(cb, uq, cq) ==
    IF cb THEN /\ pc' = "callback"
               /\ cbCommit' = TRUE
               /\ updateQueued' = uq
               /\ cbQueued' = cq
    ELSE IF uq THEN /\ pc' = "didUpdate"
                    /\ cbCommit' = cq
                    /\ updateQueued' = FALSE
                    /\ cbQueued' = FALSE
    ELSE /\ pc' = "idle"
         /\ cbCommit' = FALSE
         /\ updateQueued' = FALSE
         /\ cbQueued' = FALSE

\* an event handler that called setState or forceUpdate, or a render with new props
StartUpdate(changed) ==
    /\ Schedule(FALSE, TRUE, FALSE)
    /\ chainSteps' = 0
    /\ chainLoads' = 0
    /\ chainChanged' = changed

\* an event handler that changed neither state nor props
NoUpdate ==
    UNCHANGED <<pc, cbCommit, updateQueued, cbQueued, chainSteps, chainLoads, chainChanged>>

\* NeedsFirstLoad without the test of firstResevationLoad
NeedsFirstLoad_EveryTime(p, st) ==
    \/ ~IsDefined(p.items)
    \/ Cardinality(Keys(Val(p.items).val)) = 0

\* (!props.items || !Object.keys(props.items).length) && !this.state.firstResevationLoad
NeedsFirstLoad(p, st) ==
    /\ \/ ~IsDefined(p.items)
       \/ Cardinality(Keys(Val(p.items).val)) = 0
    /\ ~st.firstResevationLoad

\* prevProps.items != this.props.items
ItemsChanged(prev, cur) == prev # cur

(***************************************************************************)
(* Construction, rendering and the lifecycle methods.                      *)
(***************************************************************************)
\* this.state of the constructor, for props.selected = sel
InitialState(sel) ==
    [calendarIsReady |-> FALSE,
     calendarScrollable |-> FALSE,
     firstResevationLoad |-> FALSE,
     selectedDay |-> parseDate(sel),
     topDay |-> parseDate(sel)]

\* the fields of the component after the constructor, props and state aside
Constructed ==
    /\ phase = "constructed"
    /\ _isMounted = FALSE
    /\ viewHeight = WindowHeight
    /\ scrollTimeout = 0
    /\ timers = <<>>
    /\ nextId = 1
    /\ now = 0
    /\ pc = "idle"
    /\ prevItems = props.items
    /\ cbCommit = FALSE
    /\ updateQueued = FALSE
    /\ cbQueued = FALSE
    /\ scrollPad = setScrollPadPosition(0, FALSE)
    /\ calendarScroll = Undefined
    /\ markings = EmptyObject
    /\ calls = <<>>
    /\ lastOp = Op("constructor", Undefined, 0)
    /\ ops = 0
    /\ expanded = {}
    /\ opened = <<>>
    /\ lastToggled = Undefined
    /\ toggleSkipped = {}
    /\ chainSteps = 0
    /\ chainLoads = 0
    /\ chainChanged = FALSE
    /\ loadsForItems = 0

Init ==
    /\ props \in [items : InitialItems, markedDates : {Undefined},
                  loadItemsForMonth : BOOLEAN, onDayPress : BOOLEAN,
                  onCalendarToggled : BOOLEAN]
    /\ \E sel \in SelectedDays : state = InitialState(sel)
    /\ Constructed

\* render(): markedDates={this.generateMarkings()}
render ==
    LET g == generateMarkings(props, state.selectedDay)
    IN /\ markings' = g.ret
       /\ props' = [props EXCEPT !.items = g.items, !.markedDates = g.markedDates]

\* the setState of loadReservations(props), made when its condition holds
loadReservations(p, st) ==
    IF NeedsFirstLoad(p, st) THEN [st EXCEPT !.firstResevationLoad = TRUE] ELSE st

componentWillMount ==
    /\ phase = "constructed"
    /\ phase' = "mounted"
    /\ _isMounted' = TRUE
    /\ state' = loadReservations(props, state)
    /\ Schedule(NeedsFirstLoad(props, state), FALSE, FALSE)
    /\ render
    /\ prevItems' = props.items
    /\ calls' = <<>>
    /\ lastOp' = Op("componentWillMount", Undefined, 0)
    /\ UNCHANGED <<viewHeight, scrollTimeout, timers, nextId, now, scrollPad,
                   calendarScroll, ops, chainVars, toggleVars>>

componentWillUnmount ==
    /\ phase = "mounted"
    /\ pc = "idle"
    /\ phase' = "unmounted"
    /\ _isMounted' = FALSE
    /\ calls' = <<>>
    /\ lastOp' = Op("componentWillUnmount", Undefined, ops)
    /\ UNCHANGED <<props, state, viewHeight, scrollTimeout, timers, nextId, now, pc,
                   prevItems, cbCommit, updateQueued, cbQueued, scrollPad,
                   calendarScroll, markings, ops, chainVars, toggleVars>>

componentDidUpdate ==
    /\ pc = "didUpdate"
    /\ render
    /\ IF ItemsChanged(prevItems, props.items)
       THEN /\ state' = [state EXCEPT !.firstResevationLoad = FALSE]
            /\ Schedule(cbCommit, TRUE, FALSE)
       ELSE /\ state' = loadReservations(props, state)
            /\ Schedule(cbCommit, NeedsFirstLoad(props, state), NeedsFirstLoad(props, state))
    /\ prevItems' = props.items
    /\ chainSteps' = chainSteps + 1
    /\ calls' = <<>>
    /\ lastOp' = Op("componentDidUpdate", Undefined, chainSteps + 1)
    /\ UNCHANGED <<phase, _isMounted, viewHeight, scrollTimeout, timers, nextId, now,
                   scrollPad, calendarScroll, ops, chainLoads, chainChanged,
                   loadsForItems, toggleVars>>

\* the callback loadReservations passes to setState
loadReservationsCallback ==
    /\ pc = "callback"
    /\ calls' = Invoke(props, LoadCall(xdateToData(state.selectedDay)))
    /\ chainLoads' = chainLoads + Len(calls')
    /\ loadsForItems' = loadsForItems + Len(calls')
    /\ Schedule(FALSE, updateQueued, cbQueued)
    /\ lastOp' = Op("loadReservationsCallback", Some(state.selectedDay), chainSteps)
    /\ UNCHANGED <<props, state, phase, _isMounted, viewHeight, scrollTimeout, timers,
                   nextId, now, prevItems, scrollPad, calendarScroll, markings, ops,
                   chainSteps, chainChanged, toggleVars>>

(***************************************************************************)
(* The operations of the user and of the application.                      *)
(***************************************************************************)
CanOperate ==
    /\ phase = "mounted"
    /\ pc = "idle"
    /\ ops < MaxOps
    /\ now <= MaxTime * TickMs

\* the props of a render by the parent: another items object
NextProps(p) == {[p EXCEPT !.items = i] : i \in ItemsChoices \ {p.items}}

\* a render with new props
setProps ==
    /\ CanOperate
    /\ \E p \in NextProps(props) :
          /\ props' = p
          /\ StartUpdate(ItemsChanged(props.items, p.items))
          /\ loadsForItems' = IF ItemsChanged(props.items, p.items) THEN 0 ELSE loadsForItems
    /\ ops' = ops + 1
    /\ calls' = <<>>
    /\ lastOp' = Op("setProps", Undefined, ops + 1)
    /\ UNCHANGED <<state, phase, _isMounted, viewHeight, scrollTimeout, timers, nextId,
                   now, prevItems, scrollPad, calendarScroll, markings, toggleVars>>

onLayout ==
    /\ CanOperate
    /\ \E h \in Heights \ {viewHeight} : viewHeight' = h
    /\ StartUpdate(FALSE)
    /\ ops' = ops + 1
    /\ calls' = <<>>
    /\ lastOp' = Op("onLayout", Undefined, ops + 1)
    /\ UNCHANGED <<props, state, phase, _isMounted, scrollTimeout, timers, nextId, now,
                   prevItems, scrollPad, calendarScroll, markings, loadsForItems,
                   toggleVars>>

onScrollPadLayout ==
    /\ CanOperate
    /\ scrollPad' = setScrollPadPosition(initialScrollPadPosition(viewHeight), FALSE)
    /\ timers' = setTimeout(timers, nextId, "ready", ReadyDelay, Undefined, 0)
    /\ nextId' = nextId + 1
    /\ NoUpdate
    /\ ops' = ops + 1
    /\ calls' = <<>>
    /\ lastOp' = Op("onScrollPadLayout", Undefined, ops + 1)
    /\ UNCHANGED <<props, state, phase, _isMounted, viewHeight, scrollTimeout, now,
                   prevItems, calendarScroll, markings, loadsForItems, toggleVars>>

\* this.props.items && !this.state.firstResevationLoad
WatchesMonths(p, st) == IsDefined(p.items) /\ ~st.firstResevationLoad

onVisibleMonthsChange(months) ==
    /\ CanOperate
    /\ IF WatchesMonths(props, state)
       THEN /\ timers' = setTimeout(clearTimeout(timers, scrollTimeout), nextId, "load",
                                    LoadDelay, Some(months[1]), 0)
            /\ scrollTimeout' = nextId
            /\ nextId' = nextId + 1
       ELSE UNCHANGED <<timers, scrollTimeout, nextId>>
    /\ NoUpdate
    /\ ops' = ops + 1
    /\ calls' = <<>>
    /\ lastOp' = Op("onVisibleMonthsChange", Some(months[1]), ops + 1)
    /\ UNCHANGED <<props, state, phase, _isMounted, viewHeight, now, prevItems,
                   scrollPad, calendarScroll, markings, loadsForItems, toggleVars>>

\* enableCalendarScrolling(): the setState and the first timer
enableCalendarScrolling ==
    /\ state' = [state EXCEPT !.calendarScrollable = TRUE]
    /\ timers' = setTimeout(timers, nextId, "scroll", ScrollDelay, Undefined, nextId)
    /\ nextId' = nextId + 1

expandCalendar ==
    /\ CanOperate
    /\ enableCalendarScrolling
    /\ scrollPad' = setScrollPadPosition(0, TRUE)
    /\ StartUpdate(FALSE)
    /\ ops' = ops + 1
    /\ calls' = <<>>
    /\ lastOp' = Op("expandCalendar", Undefined, ops + 1)
    /\ expanded' = expanded \cup {nextId}
    /\ UNCHANGED <<props, phase, _isMounted, viewHeight, scrollTimeout, now, prevItems,
                   calendarScroll, markings, loadsForItems, opened, lastToggled,
                   toggleSkipped>>

\* ClosedNotification that also cancels the pending timers of enableCalendarScrolling
ClosedNotification_Cancels(st, ts, id) ==
    LET kept == SelectSeq(ts, LAMBDA t : t.kind \notin {"scroll", "opened"})
    IN IF st.calendarScrollable
       THEN setTimeout(kept, id, "closed", ClosedDelay, Undefined, id)
       ELSE kept

\* ClosedNotification without the test of calendarScrollable
ClosedNotification_Always(st, ts, id) ==
    setTimeout(ts, id, "closed", ClosedDelay, Undefined, id)

\* if (this.state.calendarScrollable) { setTimeout(..., 1000) }
ClosedNotification(st, ts, id) ==
    IF st.calendarScrollable
    THEN setTimeout(ts, id, "closed", ClosedDelay, Undefined, id)
    ELSE ts

\* chooseDayCalls with onDayPress called before loadItemsForMonth
chooseDayCalls_Swapped(p, day) ==
    Invoke(p, DayPressCall(xdateToData(day))) \o Invoke(p, LoadCall(xdateToData(day)))

\* the calls chooseDay makes for the parsed day
chooseDayCalls(p, day) ==
    Invoke(p, LoadCall(xdateToData(day))) \o Invoke(p, DayPressCall(xdateToData(day)))

\* chooseDay(d), as the operation `name`
chooseDay(d, name) ==
    LET day == parseDate(d)
    IN /\ timers' = ClosedNotification(state, timers, nextId)
       /\ nextId' = IF state.calendarScrollable THEN nextId + 1 ELSE nextId
       /\ state' = [state EXCEPT !.calendarScrollable = FALSE,
                                 !.selectedDay = Clone(day)]
       /\ scrollPad' = setScrollPadPosition(initialScrollPadPosition(viewHeight), FALSE)
       /\ calls' = chooseDayCalls(props, day)
       /\ StartUpdate(FALSE)
       /\ ops' = ops + 1
       /\ lastOp' = Op(name, Some(d), ops + 1)
       /\ UNCHANGED <<props, phase, _isMounted, viewHeight, scrollTimeout, now,
                      prevItems, calendarScroll, markings, loadsForItems, toggleVars>>

compactCalendar ==
    /\ CanOperate
    /\ chooseDay(state.selectedDay, "compactCalendar")

\* a day press in the calendar
_chooseDayFromCalendar ==
    /\ CanOperate
    /\ \E x \in PressDays : chooseDay(xdateToData(x), "chooseDay")

(***************************************************************************)
(* The clock and the timer callbacks.                                      *)
(***************************************************************************)
\* time passes; a due timer may run late, but only while operations can arrive
Tick ==
    /\ phase # "constructed"
    /\ pc = "idle"
    /\ \/ now < MaxTime * TickMs
       \/ timers # <<>> /\ \A t \in TimerSet : ~Due(t)
    /\ now' = now + TickMs
    /\ calls' = <<>>
    /\ lastOp' = Op("Tick", Undefined, now + TickMs)
    /\ UNCHANGED <<props, state, phase, _isMounted, viewHeight, scrollTimeout, timers,
                   nextId, pc, prevItems, cbCommit, updateQueued, cbQueued, scrollPad,
                   calendarScroll, markings, ops, chainVars, toggleVars>>

\* the timer of kind `kind` that runs now
Fires(t, kind) == pc = "idle" /\ IsNextTimer(t) /\ t.kind = kind

\* setTimeout(() => this.setState({calendarIsReady: true}), 0)
ReadyTimer ==
    \E t \in TimerSet :
       /\ Fires(t, "ready")
       /\ timers' = clearTimeout(timers, t.id)
       /\ IF phase = "mounted"
          THEN /\ state' = [state EXCEPT !.calendarIsReady = TRUE]
               /\ StartUpdate(FALSE)
          ELSE /\ UNCHANGED state
               /\ NoUpdate
       /\ calls' = <<>>
       /\ lastOp' = Op("ReadyTimer", Undefined, t.id)
       /\ UNCHANGED <<props, phase, _isMounted, viewHeight, scrollTimeout, nextId, now,
                      prevItems, scrollPad, calendarScroll, markings, ops,
                      loadsForItems, toggleVars>>

\* LoadTimerCalls without the _isMounted test
LoadTimerCalls_Unmounted(p, mounted, month) == Invoke(p, LoadCall(month))

\* if (this.props.loadItemsForMonth && this._isMounted) {...(months[0])}
LoadTimerCalls(p, mounted, month) ==
    IF mounted THEN Invoke(p, LoadCall(month)) ELSE <<>>

\* the timer of onVisibleMonthsChange
LoadTimer ==
    \E t \in TimerSet :
       /\ Fires(t, "load")
       /\ timers' = clearTimeout(timers, t.id)
       /\ calls' = LoadTimerCalls(props, _isMounted, Val(t.month))
       /\ NoUpdate
       /\ lastOp' = Op("LoadTimer", t.month, t.id)
       /\ UNCHANGED <<props, state, phase, _isMounted, viewHeight, scrollTimeout,
                      nextId, now, prevItems, scrollPad, calendarScroll, markings, ops,
                      loadsForItems, toggleVars>>

\* the first timer of enableCalendarScrolling: scrollToDay, then the nested timer
ScrollTimer ==
    \E t \in TimerSet :
       /\ Fires(t, "scroll")
       /\ calendarScroll' = Some(state.selectedDay)
       /\ timers' = setTimeout(clearTimeout(timers, t.id), nextId, "opened",
                               OpenedDelay, Undefined, t.origin)
       /\ nextId' = nextId + 1
       /\ NoUpdate
       /\ calls' = <<>>
       /\ lastOp' = Op("ScrollTimer", Some(state.selectedDay), t.id)
       /\ UNCHANGED <<props, state, phase, _isMounted, viewHeight, scrollTimeout, now,
                      prevItems, scrollPad, markings, ops, loadsForItems, toggleVars>>

\* a notification timer: if (this.props.onCalendarToggled) {...(b)}
Notify(t, b) ==
    /\ calls' = Invoke(props, ToggledCall(b))
    /\ lastToggled' = IF calls' # <<>> THEN Some(b) ELSE lastToggled
    /\ toggleSkipped' = IF calls' # <<>> THEN toggleSkipped ELSE toggleSkipped \cup {t.origin}
    /\ timers' = clearTimeout(timers, t.id)
    /\ NoUpdate
    /\ UNCHANGED <<props, state, phase, _isMounted, viewHeight, scrollTimeout, nextId,
                   now, prevItems, scrollPad, calendarScroll, markings, ops,
                   loadsForItems, expanded>>

\* the nested timer of enableCalendarScrolling
OpenedTimer ==
    \E t \in TimerSet :
       /\ Fires(t, "opened")
       /\ Notify(t, TRUE)
       /\ opened' = IF calls' # <<>> THEN Append(opened, t.origin) ELSE opened
       /\ lastOp' = Op("OpenedTimer", Undefined, t.id)

\* the timer of chooseDay
ClosedTimer ==
    \E t \in TimerSet :
       /\ Fires(t, "closed")
       /\ Notify(t, FALSE)
       /\ UNCHANGED opened
       /\ lastOp' = Op("ClosedTimer", Undefined, t.id)

Next ==
    \/ componentWillMount
    \/ componentWillUnmount
    \/ componentDidUpdate
    \/ loadReservationsCallback
    \/ setProps
    \/ onLayout
    \/ onScrollPadLayout
    \/ \E months \in MonthLists : onVisibleMonthsChange(months)
    \/ expandCalendar
    \/ compactCalendar
    \/ _chooseDayFromCalendar
    \/ Tick
    \/ ReadyTimer
    \/ LoadTimer
    \/ ScrollTimer
    \/ OpenedTimer
    \/ ClosedTimer

Spec == Init /\ [][Next]_vars

\* the event loop runs a due timer, lets time pass while timers are pending, and
\* React runs a started update chain to its end: a step that can be taken is taken
Fairness == WF_vars(Next)

\* the construction with the two callbacks present that no notification timer reads
InitFair == Init /\ props.loadItemsForMonth /\ props.onDayPress

FairSpec == InitFair /\ [][Next]_vars /\ Fairness

(***************************************************************************)
(* Steps, as the properties below name them.                               *)
(***************************************************************************)
\* this step is the operation `name` of the user or the application
OpStep(name) == ops' # ops /\ lastOp'.op = name

\* this step is a call of chooseDay, directly or through compactCalendar
ChooseDayStep == OpStep("chooseDay") \/ OpStep("compactCalendar")

\* this step runs the timer callback `name`
TimerStep(name) == timers' # timers /\ lastOp'.op = name

\* this step is the lifecycle step `name`
LifecycleStep(name) == lastOp' # lastOp /\ lastOp'.op = name

PendingOfKind(kind) == {t \in TimerSet : t.kind = kind}

\* the pending timers after this step that were not pending before it
NewTimers == {timers'[i] : i \in 1..Len(timers')} \ TimerSet

Count(seq, x) == Cardinality({i \in 1..Len(seq) : seq[i] = x})

\* the fields of the state the callbacks must not influence
Core(st) == <<st.selectedDay, st.calendarScrollable, st.firstResevationLoad>>

(***************************************************************************)
(* C1.  An absent optional callback is never invoked, and every operation  *)
(* changes selectedDay, calendarScrollable and firstResevationLoad in the  *)
(* same way whether the callbacks are present or not: the change is the    *)
(* one fixed by the operation, the state and the items prop alone.         *)
(***************************************************************************)
\* every call of the last step went to a callback that is present
C1_NoAbsentCall == \A i \in 1..Len(calls) : props[calls[i].fn]

\* items is absent or has no keys
C1_ItemsEmpty(p) == ~IsDefined(p.items) \/ Keys(Val(p.items).val) = {}

\* the change of the three fields each operation makes, callbacks aside
C1_SameChange ==
    /\ ChooseDayStep =>
          Core(state') = <<parseDate(Val(lastOp'.day)), FALSE, state.firstResevationLoad>>
    /\ OpStep("expandCalendar") =>
          Core(state') = <<state.selectedDay, TRUE, state.firstResevationLoad>>
    /\ (LifecycleStep("componentWillMount")
          \/ (LifecycleStep("componentDidUpdate") /\ prevItems = props.items)) =>
          Core(state') = <<state.selectedDay, state.calendarScrollable,
                           state.firstResevationLoad \/ C1_ItemsEmpty(props)>>
    /\ (LifecycleStep("componentDidUpdate") /\ prevItems # props.items) =>
          Core(state') = <<state.selectedDay, state.calendarScrollable, FALSE>>
    /\ lastOp'.op \in {"LoadTimer", "ScrollTimer", "OpenedTimer", "ClosedTimer",
                       "loadReservationsCallback", "onVisibleMonthsChange"} =>
          Core(state') = Core(state)

C1_AbsentCallbacks == [](C1_NoAbsentCall) /\ [][C1_SameChange]_vars

\* chooseDay of another day ran with loadItemsForMonth and onDayPress absent
C1_Witness ==
    /\ lastOp.op = "chooseDay"
    /\ ~props.loadItemsForMonth
    /\ ~props.onDayPress
    /\ calls = <<>>
    /\ state.selectedDay = XD(2018, 12, 1)

(***************************************************************************)
(* C2.  expandCalendar sets calendarScrollable and commands the scroll pad *)
(* to 0 at once; its first timer scrolls the calendar to the day selected  *)
(* when it fires and starts the second timer, which delivers               *)
(* onCalendarToggled(true) strictly later.  Every call has exactly one     *)
(* notification, pending or delivered (or found the prop absent), and it   *)
(* is eventually delivered, whatever chooseDay does in between.            *)
(***************************************************************************)
C2_Expand ==
    OpStep("expandCalendar") =>
       /\ state'.calendarScrollable
       /\ scrollPad' = [y |-> 0, animated |-> TRUE]
       /\ \E t \in NewTimers :
             /\ NewTimers = {t}
             /\ t.kind = "scroll"
             /\ t.deadline = now + ScrollDelay
       /\ calls' = <<>>

C2_Scroll ==
    TimerStep("ScrollTimer") =>
       /\ calendarScroll' = Some(state.selectedDay)
       /\ calls' = <<>>
       /\ \E t \in NewTimers :
             /\ NewTimers = {t}
             /\ t.kind = "opened"
             /\ t.deadline > now

C2_Opened ==
    TimerStep("OpenedTimer") =>
       calls' = IF props.onCalendarToggled THEN <<ToggledCall(TRUE)>> ELSE <<>>

\* onCalendarToggled(true) is called by the second timer alone
C2_OnlyOpened ==
    (\E i \in 1..Len(calls') : calls'[i].fn = "onCalendarToggled" /\ calls'[i].flag)
       => TimerStep("OpenedTimer")

\* each expandCalendar call has one notification: pending, delivered or skipped
C2_ExactlyOne ==
    \A e \in expanded :
       Cardinality({t \in TimerSet : t.origin = e /\ t.kind \in {"scroll", "opened"}})
       + Count(opened, e)
       + (IF e \in toggleSkipped THEN 1 ELSE 0) = 1

C2_Settled == \A e \in expanded : Count(opened, e) = 1 \/ e \in toggleSkipped

C2_Eventually == <>[](C2_Settled)

C3_OnePending == Cardinality(PendingOfKind("load")) <= 1

C3_Reschedule ==
    OpStep("onVisibleMonthsChange") =>
       IF IsDefined(props.items) /\ ~state.firstResevationLoad
       THEN /\ \E t \in NewTimers :
                  /\ NewTimers = {t}
                  /\ t.kind = "load"
                  /\ t.month = lastOp'.day
                  /\ t.deadline = now + LoadDelay
                  /\ scrollTimeout' = t.id
                  /\ {u \in TimerSet : u.kind = "load"} \cap
                        {timers'[i] : i \in 1..Len(timers')} = {}
            /\ {u \in TimerSet : u.kind # "load"} \subseteq
                  {timers'[i] : i \in 1..Len(timers')}
       ELSE /\ timers' = timers
            /\ scrollTimeout' = scrollTimeout

C3_Fire ==
    TimerStep("LoadTimer") =>
       /\ calls' = IF props.loadItemsForMonth /\ _isMounted
                   THEN <<Call("loadItemsForMonth", lastOp'.day, FALSE)>>
                   ELSE <<>>
       /\ \E t \in PendingOfKind("load") : t.month = lastOp'.day /\ t.id = scrollTimeout

C3_SingleLoadTimer == [](C3_OnePending) /\ [][C3_Reschedule /\ C3_Fire]_vars

\* a burst of two calls led to one call, for the month of the second list
C3_Witness ==
    /\ lastOp.op = "LoadTimer"
    /\ calls = <<LoadCall(xdateToData(XD(2018, 12, 1)))>>
    /\ ops = 2
    /\ nextId = 3
    /\ timers = <<>>

\* the timer fired after the component was unmounted and called nothing
C3_WitnessUnmounted ==
    /\ lastOp.op = "LoadTimer"
    /\ props.loadItemsForMonth
    /\ ~_isMounted
    /\ calls = <<>>

(***************************************************************************)
(* generateMarkings on its own: the component is constructed with any      *)
(* items, markedDates and selected day of the bounded input sets, and      *)
(* rendered once.                                                          *)
(***************************************************************************)
\* the values a date key of items holds: undefined, an empty list, a list
ItemLists == {Undefined, Some(<<>>), Some(<<"a">>)}

\* the marking entries of markedDates
Entries ==
    {[x \in {"marked"} |-> TRUE],
     [x \in {"marked", "selected"} |-> x = "marked"],
     [x \in {"disabled"} |-> TRUE]}

ObjectsOver(values) == UNION {[D -> values] : D \in SUBSET DateKeys}

MarkingItems == {Undefined} \cup {Some(Obj(0, v)) : v \in ObjectsOver(ItemLists)}

MarkingDates == {Undefined} \cup {Some(v) : v \in ObjectsOver(Entries)}

InitMarkings ==
    /\ props \in [items : MarkingItems, markedDates : MarkingDates,
                  loadItemsForMonth : {TRUE}, onDayPress : {TRUE},
                  onCalendarToggled : {TRUE}]
    /\ \E sel \in Days : state = InitialState(sel)
    /\ Constructed

\* the first render of the constructed component
RenderMarkings ==
    /\ lastOp.op = "constructor"
    /\ render
    /\ lastOp' = Op("render", Undefined, 0)
    /\ UNCHANGED <<state, phase, _isMounted, viewHeight, scrollTimeout, timers, nextId,
                   now, pc, prevItems, cbCommit, updateQueued, cbQueued, scrollPad,
                   calendarScroll, calls, ops, chainVars, toggleVars>>

NextMarkings == RenderMarkings

SpecMarkings == InitMarkings /\ [][NextMarkings]_vars

(***************************************************************************)
(* C4.  generateMarkings returns the markedDates prop, or for an absent    *)
(* markedDates an entry {marked: true} for exactly the date keys of items  *)
(* that hold a non-empty list, and on top the entry of the selected day    *)
(* with selected set to true and its other fields kept.  Neither prop is   *)
(* changed by the call.                                                    *)
(***************************************************************************)
\* the date key of a day, written out
C4_KeyOf(day) ==
    CASE day = XD(2018, 5, 9) -> "2018-05-09"
      [] day = XD(2018, 5, 10) -> "2018-05-10"
      [] day = XD(2018, 12, 1) -> "2018-12-01"

\* the entry of key k before the selected day is added, undefined when there is none
C4_Base(p, k) ==
    IF IsDefined(p.markedDates)
    THEN (IF k \in DOMAIN Val(p.markedDates) THEN Some(Val(p.markedDates)[k]) ELSE Undefined)
    ELSE IF /\ IsDefined(p.items)
            /\ k \in DOMAIN Val(p.items).val
            /\ Val(p.items).val[k] \notin {Undefined, Some(<<>>)}
         THEN Some([marked |-> TRUE])
         ELSE Undefined

C4_Result ==
    lastOp.op = "render" =>
       /\ DOMAIN markings \subseteq DateKeys
       /\ \A k \in DateKeys :
             IF k = C4_KeyOf(state.selectedDay)
             THEN /\ k \in DOMAIN markings
                  /\ markings[k]["selected"] = TRUE
                  /\ LET base == C4_Base(props, k)
                         kept == IF IsDefined(base) THEN DOMAIN Val(base) \ {"selected"} ELSE {}
                     IN /\ DOMAIN markings[k] = kept \cup {"selected"}
                        /\ \A f \in kept : markings[k][f] = Val(base)[f]
             ELSE IF IsDefined(C4_Base(props, k))
                  THEN k \in DOMAIN markings /\ markings[k] = Val(C4_Base(props, k))
                  ELSE k \notin DOMAIN markings

C4_PropsKept == lastOp'.op = "render" => props' = props

C4_Markings == [](C4_Result) /\ [][C4_PropsKept]_vars

\* markedDates absent: a day with items is marked, a day with an empty list is not,
\* and the selected day has no items
C4_Witness ==
    /\ lastOp.op = "render"
    /\ ~IsDefined(props.markedDates)
    /\ IsDefined(props.items)
    /\ Val(props.items).val = [k \in {"2018-05-10", "2018-12-01"} |->
                                 IF k = "2018-05-10" THEN Some(<<"a">>) ELSE Some(<<>>)]
    /\ state.selectedDay = XD(2018, 5, 9)
    /\ DOMAIN markings = {"2018-05-09", "2018-05-10"}

\* markedDates given: the entry of the selected day keeps its fields, items is ignored
C4_WitnessGiven ==
    /\ lastOp.op = "render"
    /\ IsDefined(props.markedDates)
    /\ IsDefined(props.items)
    /\ state.selectedDay = XD(2018, 5, 9)
    /\ "2018-05-09" \in DOMAIN Val(props.markedDates)
    /\ Val(props.markedDates)["2018-05-09"] = [x \in {"marked", "selected"} |-> x = "marked"]
    /\ markings["2018-05-09"] = [x \in {"marked", "selected"} |-> TRUE]

(***************************************************************************)
(* C5.  Once every notification timer has run, the last onCalendarToggled  *)
(* call tells the application the state the calendar is in: its argument   *)
(* equals calendarScrollable.                                              *)
(***************************************************************************)
\* no timer of enableCalendarScrolling or chooseDay is pending
C5_Quiet == \A t \in TimerSet : t.kind \notin {"scroll", "opened", "closed"}

C5_LastMatchesState ==
    (/\ C5_Quiet
     /\ pc = "idle"
     /\ _isMounted
     /\ props.onCalendarToggled
     /\ toggleSkipped = {}
     /\ IsDefined(lastToggled))
       => Val(lastToggled) = state.calendarScrollable

(***************************************************************************)
(* C6.  calendarScrollable starts false, is set only by expandCalendar and *)
(* cleared only by chooseDay (compactCalendar and a day press included).   *)
(* chooseDay starts the timer of onCalendarToggled(false) exactly when     *)
(* calendarScrollable is true at the call; nothing else ever leads to an   *)
(* onCalendarToggled(false) call.                                          *)
(***************************************************************************)
C6_StartsCompact == lastOp.op = "constructor" => ~state.calendarScrollable

C6_Toggle ==
    /\ (~state.calendarScrollable /\ state'.calendarScrollable) => OpStep("expandCalendar")
    /\ (state.calendarScrollable /\ ~state'.calendarScrollable) => ChooseDayStep
    /\ OpStep("expandCalendar") => state'.calendarScrollable
    /\ ChooseDayStep => ~state'.calendarScrollable

C6_Closed ==
    /\ ChooseDayStep =>
          IF state.calendarScrollable
          THEN \E t \in NewTimers :
                  /\ NewTimers = {t}
                  /\ t.kind = "closed"
                  /\ t.deadline = now + ClosedDelay
          ELSE timers' = timers
    /\ (\E t \in NewTimers : t.kind = "closed") =>
          ChooseDayStep /\ state.calendarScrollable

C6_OnlyClosed ==
    /\ (\E i \in 1..Len(calls') : calls'[i].fn = "onCalendarToggled" /\ ~calls'[i].flag)
          => TimerStep("ClosedTimer")
    /\ TimerStep("ClosedTimer") =>
          calls' = IF props.onCalendarToggled THEN <<ToggledCall(FALSE)>> ELSE <<>>

C6_TwoStateToggle ==
    /\ C6_StartsCompact
    /\ [][C6_Toggle /\ C6_Closed /\ C6_OnlyClosed]_vars

\* a chooseDay made while the calendar was compact: no timer, no notification
C6_WitnessCompact ==
    /\ lastOp.op = "chooseDay"
    /\ ops = 1
    /\ timers = <<>>
    /\ nextId = 1
    /\ ~state.calendarScrollable

\* a chooseDay made while the calendar was expanded was notified
C6_Witness ==
    /\ lastOp.op = "ClosedTimer"
    /\ calls = <<ToggledCall(FALSE)>>
    /\ ~state.calendarScrollable

(***************************************************************************)
(* C7.  loadReservations asks for the initial load only when items is      *)
(* absent or empty and firstResevationLoad is false, with the selected day *)
(* and after setting firstResevationLoad; at most once while the items     *)
(* prop stays the same.  A change of items resets firstResevationLoad, and *)
(* the chain of updates it starts ends within three componentDidUpdate     *)
(* calls, with one load request if the new items is empty (and             *)
(* loadItemsForMonth is present) and none otherwise.                       *)
(***************************************************************************)
C7_Request ==
    LifecycleStep("loadReservationsCallback") =>
       /\ state.firstResevationLoad
       /\ C1_ItemsEmpty(props)
       /\ calls' = IF props.loadItemsForMonth
                   THEN <<Call("loadItemsForMonth",
                               Some([type |-> "data",
                                     year |-> state.selectedDay.year,
                                     month |-> state.selectedDay.month,
                                     day |-> state.selectedDay.day,
                                     dateString |-> C4_KeyOf(state.selectedDay)]),
                               FALSE)>>
                   ELSE <<>>

C7_SetOnlyWhenNeeded ==
    (~state.firstResevationLoad /\ state'.firstResevationLoad) =>
       /\ C1_ItemsEmpty(props)
       /\ pc' = "callback" \/ cbCommit' \/ cbQueued'

C7_Reset ==
    (LifecycleStep("componentDidUpdate") /\ prevItems # props.items) =>
       ~state'.firstResevationLoad

C7_OncePerItems == loadsForItems <= 1

C7_ChainBounded ==
    /\ chainSteps <= 3
    /\ pc # "idle" => ENABLED (componentDidUpdate \/ loadReservationsCallback)

C7_ChainResult ==
    /\ (pc = "idle" /\ chainChanged) =>
          chainLoads = IF C1_ItemsEmpty(props) /\ props.loadItemsForMonth THEN 1 ELSE 0
    /\ (~chainChanged /\ chainSteps > 0) => chainLoads = 0

C7_InitialLoad ==
    /\ [](C7_OncePerItems /\ C7_ChainBounded /\ C7_ChainResult)
    /\ [][C7_Request /\ C7_SetOnlyWhenNeeded /\ C7_Reset]_vars

\* the items prop changed to another empty value: three componentDidUpdate calls
\* and one new load request
C7_Witness ==
    /\ pc = "idle"
    /\ chainChanged
    /\ chainSteps = 3
    /\ chainLoads = 1
    /\ loadsForItems = 1
    /\ state.firstResevationLoad

(***************************************************************************)
(* C8.  chooseDay(d) selects d, makes the calendar compact, commands the   *)
(* scroll pad to initialScrollPadPosition() without animation and calls    *)
(* loadItemsForMonth and then onDayPress with the data of d.  topDay,      *)
(* calendarIsReady and firstResevationLoad keep their values, also through *)
(* the update that follows; topDay always has the constructor's value.     *)
(* compactCalendar is chooseDay of the selected day.                       *)
(***************************************************************************)
\* the data object of the day d names, written out
C8_Data(d) ==
    [type |-> "data", year |-> d.year, month |-> d.month, day |-> d.day,
     dateString |-> C4_KeyOf(XD(d.year, d.month, d.day))]

C8_Calls(p, d) ==
    (IF p.loadItemsForMonth THEN <<Call("loadItemsForMonth", Some(C8_Data(d)), FALSE)>>
     ELSE <<>>)
    \o (IF p.onDayPress THEN <<Call("onDayPress", Some(C8_Data(d)), FALSE)>> ELSE <<>>)

C8_ChooseDay ==
    ChooseDayStep =>
       LET d == Val(lastOp'.day)
       IN /\ state'.selectedDay = XD(d.year, d.month, d.day)
          /\ ~state'.calendarScrollable
          /\ scrollPad' = [y |-> Max(0, viewHeight - HEADER_HEIGHT), animated |-> FALSE]
          /\ calls' = C8_Calls(props, d)
          /\ state'.topDay = state.topDay
          /\ state'.calendarIsReady = state.calendarIsReady
          /\ state'.firstResevationLoad = state.firstResevationLoad

C8_Compact ==
    OpStep("compactCalendar") =>
       /\ lastOp'.day = Some(state.selectedDay)
       /\ state'.selectedDay = state.selectedDay

\* the update a handler starts changes no state unless the items prop changed
C8_UpdateKeeps ==
    (LifecycleStep("componentDidUpdate") /\ ~chainChanged) => state' = state

C8_TopDay == \E sel \in SelectedDays : state.topDay = sel

C8_ChooseDayFrame ==
    /\ [](C8_TopDay)
    /\ [][C8_ChooseDay /\ C8_Compact /\ C8_UpdateKeeps]_vars

\* a day press chose another day while both callbacks were present and the view
\* was lower than the header
C8_Witness ==
    /\ lastOp.op = "chooseDay"
    /\ Len(calls) = 2
    /\ calls[1].fn = "loadItemsForMonth"
    /\ calls[2].fn = "onDayPress"
    /\ state.selectedDay = XD(2018, 12, 1)
    /\ state.topDay = XD(2018, 5, 9)
    /\ viewHeight = 50
    /\ scrollPad.y = 0

\* compactCalendar ran on a day chosen before and called both callbacks
C8_WitnessCompact ==
    /\ lastOp.op = "compactCalendar"
    /\ Len(calls) = 2
    /\ state.selectedDay = XD(2018, 12, 1)

====
